---- MODULE Spec2Model ----
(***************************************************************************)
(* build.ipynb: a notebook that loads the Fashion-MNIST CSV, explores the  *)
(* class balance, trains a small CNN, evaluates it and packages the        *)
(* trained model.  The notebook is modelled as the kernel running its code *)
(* cells from top to bottom ("Run All"): one action per code cell, the     *)
(* last cell's two shell lines being one action each.                      *)
(*                                                                         *)
(* A pandas/numpy array of pixels is modelled the way numpy holds it: a    *)
(* view (rows, first column, per-sample shape, divisor) onto the cells of  *)
(* the CSV table; an element is looked up through the view's row-major     *)
(* index arithmetic.  Label data (a few thousand numbers) is explicit.     *)
(***************************************************************************)
EXTENDS Integers, Sequences, FiniteSets, TLC

\* ------------------------------------------------------------------------
\* Numbers written in the notebook
\* ------------------------------------------------------------------------
NSamples == 10
ImgSide == 28
ImgChannels == 1
MaxIntensity == 255
TestSizeTenths == 2
TestImIndex == 154
ActivationLayers == 8
ImagesPerRow == 16
Epochs == 1

\* ------------------------------------------------------------------------
\* Bounds of the explored inputs
\* ------------------------------------------------------------------------
MaxStart == 1
MaxExtra == 1
MaxErr == 2

\* ------------------------------------------------------------------------
\* Small helpers
\* ------------------------------------------------------------------------
RECURSIVE Product(_)
Product(s) == IF s = <<>> THEN 1 ELSE Head(s) * Product(Tail(s))

Range(s) == {s[i] : i \in DOMAIN s}

Min(S) == CHOOSE x \in S : \A z \in S : x <= z

\* Python's sorted() on a set of integers
RECURSIVE Sorted(_)
Sorted(S) == IF S = {} THEN <<>> ELSE <<Min(S)>> \o Sorted(S \ {Min(S)})

IndexOf(s, v) == CHOOSE i \in DOMAIN s : s[i] = v

Count(s, v) == Cardinality({i \in DOMAIN s : s[i] = v})

\* ------------------------------------------------------------------------
\* The input: the CSV file of the cloned repository.  Column 1 is the
\* label, the remaining columns are the flattened pixels.
\* ------------------------------------------------------------------------
LabelValues == 0 .. 9

PixelCount == ImgSide * ImgSide * ImgChannels

\* n_test as train_test_split computes it for a float test_size:
\* ceil(test_size * n_samples), the rest being the train set
NTest(n) == (n * TestSizeTenths + 9) \div 10

NTrain(n) == n - NTest(n)

\* the fewest rows with which X_train[154] exists
MinRows == CHOOSE n \in 1 .. 400 :
             /\ NTrain(n) > TestImIndex
             /\ \A m \in 1 .. (n - 1) : NTrain(m) <= TestImIndex

RowCounts == (MinRows - 1) .. (MinRows + MaxExtra)

Strides == {1, 2, 3}

PixelWidths == {PixelCount, PixelCount - 1}

CsvLabels(start, stride, n) ==
  [i \in 1 .. n |-> (start + stride * (i - 1)) % 10]

\* pixel k (1-based) of record rec: every intensity 0..255 occurs in a row
CsvPixel(rec, k) == (31 * rec + 7 * k) % (MaxIntensity + 1)

CsvFiles ==
  {[kind |-> "csv", label |-> CsvLabels(s, d, n), npixels |-> w] :
     s \in 0 .. MaxStart, d \in Strides, n \in RowCounts, w \in PixelWidths}

\* ------------------------------------------------------------------------
\* DataFrame and array views
\* ------------------------------------------------------------------------
NoFrame == [label |-> <<>>, ncols |-> 0]

\* pd.read_csv: one row per record, one column per CSV column
ReadCsv(file) == [label |-> file.label, ncols |-> file.npixels + 1]

NRows(df) == Len(df.label)

\* the value at record r, column c (1-based) of the frame
Cell(df, r, c) == IF c = 1 THEN df.label[r] ELSE CsvPixel(r, c - 1)

NoArray == [rows |-> <<>>, col0 |-> 0, shape |-> <<>>, div |-> 1]

\* data_train.iloc[:, 1:].values
PixelColumns(df) ==
  [rows |-> [i \in 1 .. NRows(df) |-> i], col0 |-> 2,
   shape |-> <<df.ncols - 1>>, div |-> 1]

\* a[index] for an index array (sklearn's safe_indexing)
Take(a, ind) == [a EXCEPT !.rows = [i \in DOMAIN ind |-> a.rows[ind[i]]]]

TakeRows(m, ind) == [i \in DOMAIN ind |-> m[ind[i]]]

CanReshape(a, newshape) == Product(a.shape) = Product(newshape)

\* ndarray.reshape(n, 28, 28, 1): same buffer, new shape
Reshape(a, newshape) == [a EXCEPT !.shape = newshape]

\* .astype('float') / 255
DivideBy(a, d) == [a EXCEPT !.div = a.div * d]

\* variant: Fortran (column-major) order, the first index varies fastest
RECURSIVE FlatIndexF(_, _)
FlatIndexF(shape, idx) ==
  IF shape = <<>> THEN 0
  ELSE Head(idx) + Head(shape) * FlatIndexF(Tail(shape), Tail(idx))

\* C (row-major) order: the last index varies fastest
RECURSIVE FlatIndexC(_, _)
FlatIndexC(shape, idx) ==
  IF shape = <<>> THEN 0
  ELSE Head(idx) * Product(Tail(shape)) + FlatIndexC(Tail(shape), Tail(idx))

FlatIndex(shape, idx) == FlatIndexC(shape, idx)

\* element idx (0-based indices within the sample) of sample s (1-based)
At(df, a, s, idx) ==
  [num |-> Cell(df, a.rows[s], a.col0 + FlatIndex(a.shape, idx)),
   den |-> a.div]

\* ------------------------------------------------------------------------
\* Label data
\* ------------------------------------------------------------------------
\* the distinct values of v in order of first appearance
FirstSeen(v) ==
  LET F == {i \in DOMAIN v : \A j \in 1 .. (i - 1) : v[j] # v[i]}
  IN  [k \in 1 .. Cardinality(F) |->
         v[CHOOSE i \in F : Cardinality({j \in F : j < i}) = k - 1]]

\* variant: the columns in order of first appearance instead of sorted
GetDummiesUnsorted(v) ==
  LET cols == FirstSeen(v)
  IN  [i \in DOMAIN v |-> [j \in DOMAIN cols |-> IF cols[j] = v[i] THEN 1 ELSE 0]]

\* pd.get_dummies(v).values: one column per distinct value, columns in
\* ascending order of the value, a 1 in the column of the row's value
GetDummies(v) ==
  LET cols == Sorted(Range(v))
  IN  [i \in DOMAIN v |-> [j \in DOMAIN cols |-> IF cols[j] = v[i] THEN 1 ELSE 0]]

\* the column indices (0-based) of the nonzero entries of one row
RECURSIVE RowNonzero(_, _)
RowNonzero(row, j) ==
  IF j > Len(row) THEN <<>>
  ELSE (IF row[j] # 0 THEN <<j - 1>> ELSE <<>>) \o RowNonzero(row, j + 1)

\* np.nonzero(m)[1]: the column index of every nonzero entry, row by row
RECURSIVE NonzeroScan(_)
NonzeroScan(m) ==
  IF m = <<>> THEN <<>> ELSE RowNonzero(Head(m), 1) \o NonzeroScan(Tail(m))

NonzeroColumns(m) == NonzeroScan(m)

\* Series.value_counts(): <<value, count>> pairs, the largest count first,
\* equal counts in order of first appearance
ValueCounts(v) ==
  LET S == Range(v)
      first(c) == CHOOSE i \in DOMAIN v : v[i] = c /\ \A j \in 1 .. (i - 1) : v[j] # c
      rank(c) == 1 + Cardinality({d \in S :
                       \/ Count(v, d) > Count(v, c)
                       \/ Count(v, d) = Count(v, c) /\ first(d) < first(c)})
  IN  [p \in 1 .. Cardinality(S) |->
         LET c == CHOOSE c \in S : rank(c) = p IN <<c, Count(v, c)>>]

\* dict.values(): the values in insertion order
Values(d) == [i \in DOMAIN d |-> d[i][2]]

Keys(d) == [i \in DOMAIN d |-> d[i][1]]

\* ------------------------------------------------------------------------
\* train_test_split(X, y, test_size=0.2, random_state=42)
\* ------------------------------------------------------------------------
\* RandomState(42).permutation(n), 1-based, for the row counts explored
Permutation42(n) ==
  CASE n = 193 ->
      <<
         46, 138, 77, 145, 114, 153, 16, 19, 17, 10, 79, 113, 67, 66, 155, 31, 147, 70, 112, 69,
         159, 136, 119, 99, 68, 116, 25, 160, 61, 143, 115, 168, 20, 91, 172, 6, 156, 144, 167, 83,
         110, 164, 36, 137, 43, 184, 102, 56, 76, 127, 30, 173, 57, 52, 165, 39, 32, 157, 13, 42,
         169, 191, 186, 98, 27, 124, 86, 96, 3, 47, 101, 94, 129, 37, 182, 23, 185, 118, 128, 12,
         120, 154, 7, 28, 105, 5, 33, 125, 140, 123, 139, 11, 63, 97, 141, 1, 174, 148, 71, 189,
         65, 45, 121, 29, 41, 177, 151, 26, 24, 146, 142, 82, 109, 80, 85, 40, 126, 87, 78, 188,
         163, 48, 95, 149, 181, 62, 74, 34, 44, 133, 4, 106, 54, 134, 175, 179, 192, 50, 81, 35,
         8, 111, 92, 84, 171, 176, 90, 9, 14, 60, 166, 132, 18, 73, 170, 135, 162, 178, 64, 55,
         108, 51, 190, 59, 49, 89, 22, 58, 161, 187, 130, 38, 158, 183, 2, 53, 150, 131, 152, 104,
         100, 117, 88, 75, 122, 193, 21, 72, 107, 15, 93, 180, 103 >>
    [] n = 194 ->
      <<
         139, 17, 156, 97, 69, 154, 56, 16, 113, 112, 185, 19, 83, 10, 165, 118, 70, 114, 192, 120,
         124, 145, 67, 46, 159, 116, 68, 94, 31, 102, 119, 76, 25, 173, 128, 170, 20, 169, 74, 6,
         136, 123, 168, 86, 57, 96, 36, 190, 43, 66, 105, 160, 79, 77, 30, 137, 61, 52, 166, 39,
         32, 174, 13, 110, 42, 133, 101, 27, 129, 187, 99, 3, 47, 138, 91, 146, 37, 186, 23, 127,
         148, 34, 12, 125, 155, 7, 28, 162, 5, 33, 144, 141, 98, 140, 11, 63, 182, 142, 1, 175,
         149, 71, 115, 65, 45, 126, 29, 41, 183, 151, 193, 26, 24, 147, 143, 82, 109, 80, 85, 40,
         62, 121, 87, 78, 189, 164, 48, 95, 178, 44, 157, 4, 106, 54, 134, 176, 153, 181, 50, 81,
         35, 8, 111, 92, 84, 172, 177, 90, 9, 14, 60, 167, 132, 18, 73, 171, 135, 163, 179, 64,
         55, 108, 51, 191, 59, 49, 89, 22, 58, 161, 188, 130, 38, 158, 184, 2, 53, 150, 131, 152,
         104, 100, 117, 88, 75, 122, 194, 21, 72, 107, 15, 93, 180, 103 >>
    [] n = 195 ->
      <<
         139, 17, 156, 97, 69, 154, 56, 16, 113, 112, 185, 19, 83, 10, 165, 118, 70, 114, 193, 120,
         124, 145, 67, 46, 159, 116, 68, 94, 31, 102, 119, 76, 25, 173, 128, 170, 20, 169, 74, 6,
         136, 123, 168, 86, 57, 96, 36, 191, 43, 66, 105, 160, 79, 77, 30, 137, 61, 52, 166, 39,
         32, 174, 13, 110, 42, 133, 101, 27, 129, 187, 99, 3, 47, 138, 91, 146, 37, 186, 23, 127,
         148, 34, 12, 125, 155, 7, 28, 162, 5, 33, 144, 141, 98, 140, 11, 63, 182, 142, 1, 175,
         149, 71, 115, 65, 45, 126, 29, 41, 183, 151, 194, 26, 24, 147, 143, 82, 109, 80, 85, 40,
         62, 121, 87, 78, 190, 164, 48, 95, 178, 44, 157, 4, 106, 54, 134, 176, 153, 181, 50, 81,
         35, 8, 111, 92, 84, 172, 177, 90, 9, 14, 60, 167, 132, 18, 73, 171, 135, 163, 179, 64,
         55, 108, 51, 192, 59, 49, 89, 22, 58, 161, 188, 130, 38, 158, 184, 2, 53, 150, 131, 152,
         104, 100, 117, 88, 75, 122, 195, 21, 189, 72, 107, 15, 93, 180, 103 >>
    [] n = 196 ->
      <<
         140, 114, 17, 76, 155, 186, 70, 56, 19, 170, 157, 16, 162, 61, 116, 115, 146, 10, 74, 188,
         113, 94, 139, 46, 86, 68, 129, 174, 31, 69, 83, 120, 184, 25, 138, 96, 57, 20, 123, 77,
         6, 66, 137, 98, 169, 124, 166, 13, 36, 163, 43, 67, 136, 79, 119, 125, 30, 133, 171, 52,
         167, 39, 32, 97, 159, 42, 192, 102, 27, 147, 149, 183, 3, 47, 105, 145, 160, 37, 187, 23,
         128, 91, 34, 12, 126, 156, 7, 28, 110, 5, 33, 194, 142, 99, 141, 11, 63, 101, 143, 1,
         176, 179, 71, 112, 65, 45, 127, 29, 41, 118, 181, 153, 26, 24, 148, 144, 82, 109, 80, 85,
         40, 62, 121, 87, 78, 191, 165, 48, 95, 151, 44, 175, 4, 106, 54, 134, 177, 154, 182, 50,
         81, 35, 8, 111, 92, 84, 173, 178, 90, 9, 14, 60, 168, 132, 18, 73, 172, 135, 164, 195,
         64, 55, 108, 51, 193, 59, 49, 89, 22, 58, 161, 190, 130, 38, 158, 185, 2, 53, 150, 131,
         152, 104, 100, 117, 88, 75, 122, 196, 21, 189, 72, 107, 15, 93, 180, 103 >>
    [] n = 197 ->
      <<
         141, 114, 17, 76, 156, 187, 70, 56, 19, 171, 176, 16, 163, 61, 116, 115, 147, 10, 74, 191,
         113, 94, 140, 46, 86, 68, 148, 175, 31, 69, 83, 120, 185, 25, 133, 96, 57, 20, 123, 77,
         6, 66, 138, 98, 170, 125, 167, 13, 36, 164, 43, 67, 159, 79, 119, 126, 30, 137, 162, 52,
         168, 39, 32, 97, 160, 42, 193, 102, 27, 172, 196, 184, 3, 47, 105, 146, 139, 37, 188, 23,
         129, 91, 34, 12, 127, 157, 7, 28, 110, 5, 33, 195, 143, 99, 142, 11, 63, 101, 144, 1,
         177, 151, 71, 112, 65, 45, 128, 29, 41, 118, 153, 154, 26, 24, 149, 145, 82, 109, 80, 85,
         40, 62, 121, 124, 87, 78, 192, 166, 48, 95, 182, 44, 136, 4, 106, 54, 134, 178, 155, 183,
         50, 81, 35, 8, 111, 92, 84, 174, 179, 90, 9, 14, 60, 169, 132, 18, 73, 173, 135, 165,
         181, 64, 55, 108, 51, 194, 59, 49, 89, 22, 58, 161, 190, 130, 38, 158, 186, 2, 53, 150,
         131, 152, 104, 100, 117, 88, 75, 122, 197, 21, 189, 72, 107, 15, 93, 180, 103 >>

\* variant: the train slice starts one entry early
SplitIndicesOverlapping(n) ==
  LET perm == Permutation42(n)
  IN  [test |-> SubSeq(perm, 1, NTest(n)),
       train |-> SubSeq(perm, NTest(n), NTest(n) + NTrain(n) - 1)]

\* ShuffleSplit: the first n_test entries of the permutation are the test
\* indices, the next n_train the train indices
SplitIndices(n) ==
  LET perm == Permutation42(n)
  IN  [test |-> SubSeq(perm, 1, NTest(n)),
       train |-> SubSeq(perm, NTest(n) + 1, NTest(n) + NTrain(n))]

\* ------------------------------------------------------------------------
\* The network
\* ------------------------------------------------------------------------
KernelSize == 3

\* the layers added to the Sequential model, in order (n: filters, pool
\* size or units)
Architecture ==
  << [kind |-> "conv2d", n |-> 32],
     [kind |-> "max_pooling2d", n |-> 2],
     [kind |-> "dropout", n |-> 0],
     [kind |-> "conv2d", n |-> 64],
     [kind |-> "max_pooling2d", n |-> 2],
     [kind |-> "dropout", n |-> 0],
     [kind |-> "conv2d", n |-> 128],
     [kind |-> "dropout", n |-> 0],
     [kind |-> "flatten", n |-> 0],
     [kind |-> "dense", n |-> 128],
     [kind |-> "dropout", n |-> 0],
     [kind |-> "dense", n |-> 10] >>

InputShape == <<ImgSide, ImgSide, ImgChannels>>

\* Keras names a layer <class prefix>_<k>, k counting the layers of that
\* class created so far
LayerName(arch, i) ==
  [prefix |-> arch[i].kind,
   uid |-> Cardinality({j \in 1 .. i : arch[j].kind = arch[i].kind})]

OutShape(layer, in) ==
  CASE layer.kind = "conv2d" ->
         <<in[1] - KernelSize + 1, in[2] - KernelSize + 1, layer.n>>
    [] layer.kind = "max_pooling2d" ->
         <<in[1] \div layer.n, in[2] \div layer.n, in[3]>>
    [] layer.kind = "dropout" -> in
    [] layer.kind = "flatten" -> <<Product(in)>>
    [] layer.kind = "dense" -> <<layer.n>>

RECURSIVE ShapeAfter(_, _)
ShapeAfter(arch, i) ==
  IF i = 0 THEN InputShape ELSE OutShape(arch[i], ShapeAfter(arch, i - 1))

Sequential(arch) ==
  [i \in DOMAIN arch |->
     [name |-> LayerName(arch, i), kind |-> arch[i].kind, n |-> arch[i].n,
      output |-> ShapeAfter(arch, i)]]

NoModel ==
  [layers |-> <<>>, compiled |-> FALSE, trained |-> FALSE, errEvery |-> 0,
   session |-> "none"]

\* the width of the model's output rows
OutputWidth(m) == m.layers[Len(m.layers)].output[1]

\* clf.predict_classes(a): the class of every sample.  A trained network is
\* a function of the image; the explored networks answer the record's class
\* except on every errEvery-th record, where they answer the next class.
PredictClasses(m, df, a) ==
  [s \in DOMAIN a.rows |->
     LET t == df.label[a.rows[s]]
     IN  IF m.errEvery > 0 /\ a.rows[s] % m.errEvery = 0
         THEN (t + 1) % OutputWidth(m)
         ELSE t]

\* ------------------------------------------------------------------------
\* sklearn.metrics.classification_report(y_true, y_pred, target_names)
\* ------------------------------------------------------------------------
Ratio(n, d) == IF d = 0 THEN [num |-> 0, den |-> 1] ELSE [num |-> n, den |-> d]

SameRatio(a, b) == a.num * b.den = b.num * a.den

BothEqual(a, b, c) == Cardinality({i \in DOMAIN a : a[i] = c /\ b[i] = c})

\* one row per label occurring in y_true or y_pred, in ascending order; the
\* k-th row takes the k-th target name
ClassificationReport(y_true, y_pred, target_names) ==
  LET labels == Sorted(Range(y_true) \cup Range(y_pred))
      nrows == IF Len(labels) < Len(target_names)
               THEN Len(labels) ELSE Len(target_names)
  IN  [k \in 1 .. nrows |->
         LET c == labels[k]
             tp == BothEqual(y_true, y_pred, c)
         IN  [name |-> target_names[k],
              precision |-> Ratio(tp, Count(y_pred, c)),
              recall |-> Ratio(tp, Count(y_true, c)),
              f1 |-> Ratio(2 * tp, Count(y_pred, c) + Count(y_true, c)),
              support |-> Count(y_true, c)]]

\* ------------------------------------------------------------------------
\* The activation grids
\* ------------------------------------------------------------------------
\* a[:k] and a[:-1]
Prefix(s, k) == SubSeq(s, 1, IF k < Len(s) THEN k ELSE Len(s))

AllButLast(s) == SubSeq(s, 1, Len(s) - 1)

\* Model(input, output=layer_outputs).predict(one image): the output of each
\* listed layer, with the batch dimension of 1 in front
Activations(layers) ==
  [i \in DOMAIN layers |-> [layer |-> i, shape |-> <<1>> \o layers[i].output]]

\* str.startswith('conv') on the layer names Keras can produce here
StartsWithConv(name) == name.prefix \in {"conv2d"}

\* A 2-D array that is zeroed and then only written through slice
\* assignments is held as its shape and the assignments made, in order.
\* np.zeros((h, w))
Zeros(h, w) == [h |-> h, w |-> w, writes |-> <<>>]

\* variant: row and column taken the other way round
ChannelIndexSwapped(col, row) == row * ImagesPerRow + col

ChannelIndex(col, row) == col * ImagesPerRow + row

\* display_grid[col*size : (col+1)*size, row*size : (row+1)*size] =
\*   the scaled image layer_activation[0, :, :, col*images_per_row + row]
\* r1 and c1 are exclusive, as the slice ends are; img is the image's shape
TileWrite(act, size, col, row) ==
  [r0 |-> col * size, r1 |-> (col + 1) * size,
   c0 |-> row * size, c1 |-> (row + 1) * size,
   layer |-> act.layer, channel |-> ChannelIndex(col, row),
   img |-> <<act.shape[2], act.shape[3]>>]

\* what the loop header computes for one activation
NFeatures(act) == act.shape[Len(act.shape)]

Size(act) == act.shape[2]

NCols(act) == NFeatures(act) \div ImagesPerRow

\* for col in range(n_cols): for row in range(images_per_row): the t-th
\* pass of the inner body has col = t // images_per_row, row = t % images_per_row
TileLoop(act) ==
  [t \in 1 .. NCols(act) * ImagesPerRow |->
     TileWrite(act, Size(act), (t - 1) \div ImagesPerRow, (t - 1) % ImagesPerRow)]

\* display_grid after the two loops over one activation
DisplayGrid(act) ==
  [Zeros(Size(act) * NCols(act), ImagesPerRow * Size(act))
     EXCEPT !.writes = @ \o TileLoop(act)]

\* ------------------------------------------------------------------------
\* Files
\* ------------------------------------------------------------------------
CsvPath == "quilt-sagemaker-demo/fashion_mnist-train.csv"

H5Path == "clf.h5"

TarPath == "clf.tar.gz"

DeployPath == "/opt/ml/model/clf.tar.gz"

Paths == {CsvPath, H5Path, TarPath, DeployPath}

Absent == [kind |-> "absent"]

\* what a write that failed half way leaves behind
Partial == [kind |-> "partial"]

\* clf.save(path): the HDF5 file of the model as it is now
H5File(m) == [kind |-> "h5", model |-> m]

\* variant: tar -rvf, which appends to an archive that exists already
TarAppend(fs, name) ==
  [kind |-> "tar",
   members |-> (IF fs["clf.tar.gz"].kind = "tar" THEN fs["clf.tar.gz"].members
                ELSE <<>>) \o <<[name |-> name, data |-> fs[name]]>>]

\* tar -czvf clf.tar.gz clf.h5: an archive of the one named file
TarArchive(fs, name) ==
  [kind |-> "tar", members |-> <<[name |-> name, data |-> fs[name]]>>]

\* the model a run of this notebook before this one left on disk
EarlierModel ==
  [layers |-> Sequential(Architecture), compiled |-> TRUE, trained |-> TRUE,
   errEvery |-> 0, session |-> "earlier"]

EmptyDisk == [p \in Paths |-> Absent]

EarlierDisk(csv) ==
  LET d1 == [EmptyDisk EXCEPT ![CsvPath] = csv, ![H5Path] = H5File(EarlierModel)]
      d2 == [d1 EXCEPT ![TarPath] = TarArchive(d1, H5Path)]
  IN  [d2 EXCEPT ![DeployPath] = d2[TarPath]]

\* ------------------------------------------------------------------------
\* The code cells, top to bottom
\* ------------------------------------------------------------------------
Cells ==
  << "clone", "load", "unique", "plot_samples", "class_key", "label_counts",
     "split", "build", "fit", "plot_train", "plot_val", "predict", "report",
     "test_im", "activations", "save", "t4_push", "tar", "cp" >>

\* variant: the save cell moved up, right after the model is built
NextCellEarlySave(c) ==
  CASE c = "build" -> "save"
    [] c = "save" -> "fit"
    [] c = "activations" -> "t4_push"
    [] c = Cells[Len(Cells)] -> "done"
    [] OTHER -> Cells[IndexOf(Cells, c) + 1]

\* variant: the bar-chart cell moved above the cell defining img_class_key
NextCellChartFirst(c) ==
  CASE c = "plot_samples" -> "label_counts"
    [] c = "label_counts" -> "class_key"
    [] c = "class_key" -> "split"
    [] c = Cells[Len(Cells)] -> "done"
    [] OTHER -> Cells[IndexOf(Cells, c) + 1]

\* what the kernel runs after cell c has returned
NextCell(c) ==
  IF c = Cells[Len(Cells)] THEN "done" ELSE Cells[IndexOf(Cells, c) + 1]

VARIABLES
  remote,          \* the CSV file in the repository that is cloned
  disk,            \* the files of the machine the notebook runs on
  pc,              \* the cell (or shell line) to run next
  outcome,         \* "running", "raised" (an uncaught exception), "finished"
  error,           \* the exception that ended the run
  log,             \* the cells run so far, with what each read and made
  data_train, labels, img_class_key, label_counts,
  X, y, X_train, X_test, y_train, y_test,
  clf, history, epochs,
  y_test_pred, y_test_classed, report,
  test_im, layer_names, activations, display_grid, figures,
  loop             \* where the activation cell's loops stand

frameVars == <<data_train, labels, img_class_key, label_counts>>
splitVars == <<X, y, X_train, X_test, y_train, y_test>>
modelVars == <<clf, history, epochs>>
evalVars == <<y_test_pred, y_test_classed, report>>
vizVars == <<test_im, layer_names, activations, display_grid, figures, loop>>
vars ==
  <<remote, disk, pc, outcome, error, log, frameVars, splitVars, modelVars,
    evalVars, vizVars>>

NoLoop == [at |-> "before", zi |-> 0, col |-> 0, row |-> 0]

Fresh ==
  /\ pc = Cells[1] /\ outcome = "running" /\ error = "none" /\ log = <<>>
  /\ data_train = NoFrame /\ labels = <<>> /\ img_class_key = <<>>
  /\ label_counts = <<>>
  /\ X = NoArray /\ y = <<>> /\ X_train = NoArray /\ X_test = NoArray
  /\ y_train = <<>> /\ y_test = <<>>
  /\ clf = NoModel /\ history = <<>> /\ epochs = 0
  /\ y_test_pred = <<>> /\ y_test_classed = <<>> /\ report = <<>>
  /\ test_im = NoArray /\ layer_names = <<>> /\ activations = <<>>
  /\ display_grid = <<>> /\ figures = <<>> /\ loop = NoLoop

\* a fresh kernel; the working directory is empty or holds what an earlier
\* run of the notebook left
Init ==
  /\ remote \in CsvFiles
  /\ disk \in {EmptyDisk, EarlierDisk(remote)}
  /\ Fresh

\* ---- bookkeeping shared by the cells
Runs(cell) == outcome = "running" /\ pc = cell

Entry(cell, ok, lang, reads, makes) ==
  [cell |-> cell, ok |-> ok, lang |-> lang, reads |-> reads, makes |-> makes]

\* the cell returned: the kernel goes on to the next one
Returned(ok, lang, reads, makes) ==
  /\ log' = Append(log, Entry(pc, ok, lang, reads, makes))
  /\ pc' = NextCell(pc)
  /\ outcome' = IF NextCell(pc) = "done" THEN "finished" ELSE outcome
  /\ error' = error

\* variant: the exception is swallowed (a bare try/except around the cell)
RaisedAndCaught(exc, reads, makes) ==
  /\ log' = Append(log, Entry(pc, FALSE, "python", reads, makes))
  /\ pc' = NextCell(pc)
  /\ outcome' = IF NextCell(pc) = "done" THEN "finished" ELSE outcome
  /\ error' = error

\* the cell raised: nothing catches it, the run stops here
Raised(exc, reads, makes) ==
  /\ log' = Append(log, Entry(pc, FALSE, "python", reads, makes))
  /\ pc' = pc
  /\ outcome' = "raised"
  /\ error' = exc

\* ---- !git clone https://github.com/lanrekkeeg/quilt-sagemaker-demo.git
Clone ==
  /\ Runs("clone")
  /\ \/ /\ disk[CsvPath] = Absent
        /\ disk' = [disk EXCEPT ![CsvPath] = remote]
        /\ Returned(TRUE, "shell", {}, {CsvPath})
     \/ \* no network, or the directory exists already: git exits non-zero
        /\ disk' = disk
        /\ Returned(FALSE, "shell", {}, {})
  /\ UNCHANGED <<remote, frameVars, splitVars, modelVars, evalVars, vizVars>>

\* ---- data_train = pd.read_csv(...); data_train.head()
Load ==
  /\ Runs("load")
  /\ IF disk[CsvPath].kind = "csv"
     THEN /\ data_train' = ReadCsv(disk[CsvPath])
          /\ Returned(TRUE, "python", {CsvPath, "data_train"}, {"data_train"})
     ELSE /\ data_train' = data_train
          /\ Raised("FileNotFoundError", {}, {})
  /\ UNCHANGED <<remote, disk, labels, img_class_key, label_counts, splitVars,
                 modelVars, evalVars, vizVars>>

\* ---- sorted(data_train.label.unique())
Unique ==
  /\ Runs("unique")
  /\ Returned(TRUE, "python", {"data_train"}, {})
  /\ UNCHANGED <<remote, disk, frameVars, splitVars, modelVars, evalVars, vizVars>>

\* every class has n_samples rows to draw, and a row's pixels make a 28 x 28
\* image
CanPlotSamples(df) ==
  /\ \A c \in Range(df.label) : Count(df.label, c) >= NSamples
  /\ NSamples * (df.ncols - 1) = NSamples * ImgSide * ImgSide

\* ---- labels = sorted(...); n_samples = 10; the grid of sample images
PlotSamples ==
  /\ Runs("plot_samples")
  /\ labels' = Sorted(Range(data_train.label))
  /\ IF CanPlotSamples(data_train)
     THEN Returned(TRUE, "python", {"data_train"}, {"labels"})
     ELSE Raised("ValueError", {"data_train"}, {"labels"})
  /\ UNCHANGED <<remote, disk, data_train, img_class_key, label_counts,
                 splitVars, modelVars, evalVars, vizVars>>

\* ---- img_class_key = {0: 't-shirt', ..., 9: 'boot'}
ClassKey ==
  /\ Runs("class_key")
  /\ img_class_key' =
       << <<0, "t-shirt">>, <<1, "pants">>, <<2, "pullover">>, <<3, "dress">>,
          <<4, "coat">>, <<5, "sandal">>, <<6, "shirt">>, <<7, "sneakers">>,
          <<8, "handbag">>, <<9, "boot">> >>
  /\ Returned(TRUE, "python", {}, {"img_class_key"})
  /\ UNCHANGED <<remote, disk, data_train, labels, label_counts, splitVars,
                 modelVars, evalVars, vizVars>>

\* variant: an index assignment that takes any number of names
IndexFitsAny(names, counts) == TRUE

\* Series.index = names: pandas raises unless there is one name per entry
IndexFits(names, counts) == Len(names) = Len(counts)

\* ---- label_counts = value_counts(); label_counts.index = names; bar plot
LabelCounts ==
  /\ Runs("label_counts")
  /\ LET counts == ValueCounts(data_train.label)
         names == Values(img_class_key)
     IN  IF IndexFits(names, counts)
         THEN /\ label_counts' = [p \in DOMAIN counts |-> <<names[p], counts[p][2]>>]
              /\ Returned(TRUE, "python", {"data_train", "img_class_key"},
                          {"label_counts"})
         ELSE \* Length mismatch: the index keeps the label values
              /\ label_counts' = counts
              /\ Raised("ValueError", {"data_train", "img_class_key"},
                        {"label_counts"})
  /\ UNCHANGED <<remote, disk, data_train, labels, img_class_key, splitVars,
                 modelVars, evalVars, vizVars>>

\* the per-sample shape the CNN takes
GridShape == <<ImgSide, ImgSide, ImgChannels>>

\* ---- X, y, train_test_split, reshape and normalise
Split ==
  /\ Runs("split")
  /\ LET ind == SplitIndices(NRows(data_train))
         Xall == PixelColumns(data_train)
         yall == GetDummies(data_train.label)
         Xtr == Take(Xall, ind.train)
         Xte == Take(Xall, ind.test)
     IN  /\ X' = Xall
         /\ y' = yall
         /\ y_train' = TakeRows(yall, ind.train)
         /\ y_test' = TakeRows(yall, ind.test)
         /\ IF CanReshape(Xtr, GridShape)
            THEN /\ X_train' = DivideBy(Reshape(Xtr, GridShape), MaxIntensity)
                 /\ X_test' = DivideBy(Reshape(Xte, GridShape), MaxIntensity)
                 /\ Returned(TRUE, "python", {"data_train"}, {"X", "y"})
            ELSE /\ X_train' = Xtr
                 /\ X_test' = Xte
                 /\ Raised("ValueError", {"data_train"}, {"X", "y"})
  /\ UNCHANGED <<remote, disk, frameVars, modelVars, evalVars, vizVars>>

\* ---- clf = Sequential(); clf.add(...) x 12; clf.compile(...)
Build ==
  /\ Runs("build")
  /\ clf' = [layers |-> Sequential(Architecture), compiled |-> TRUE,
             trained |-> FALSE, errEvery |-> 0, session |-> "this"]
  /\ Returned(TRUE, "python", {}, {"clf"})
  /\ UNCHANGED <<remote, disk, frameVars, splitVars, history, epochs, evalVars,
                 vizVars>>

\* Keras checks the arrays against the model before it trains
FitsModel(m, a, t) ==
  /\ a.shape = InputShape
  /\ \A i \in DOMAIN t : Len(t[i]) = OutputWidth(m)

\* ---- history = clf.fit(X_train, y_train, ..., validation_data=(X_test, y_test))
Fit ==
  /\ Runs("fit")
  /\ IF FitsModel(clf, X_train, y_train) /\ FitsModel(clf, X_test, y_test)
     THEN /\ \E e \in 0 .. MaxErr :
               clf' = [clf EXCEPT !.trained = TRUE, !.errEvery = e]
          /\ history' = [acc |-> Epochs, loss |-> Epochs, val_acc |-> Epochs,
                         val_loss |-> Epochs]
          /\ Returned(TRUE, "python",
                      {"clf", "X_train", "y_train", "X_test", "y_test"},
                      {"history", "trained"})
     ELSE /\ UNCHANGED <<clf, history>>
          /\ Raised("ValueError", {"clf", "X_train", "y_train"}, {})
  /\ UNCHANGED <<remote, disk, frameVars, splitVars, epochs, evalVars, vizVars>>

\* ---- the training accuracy and loss curves
PlotTrain ==
  /\ Runs("plot_train")
  /\ epochs' = history.acc
  /\ Returned(TRUE, "python", {"history"}, {"epochs"})
  /\ UNCHANGED <<remote, disk, frameVars, splitVars, clf, history, evalVars,
                 vizVars>>

\* ---- the validation accuracy and loss curves
PlotVal ==
  /\ Runs("plot_val")
  /\ epochs' = history.val_acc
  /\ Returned(TRUE, "python", {"history"}, {"epochs"})
  /\ UNCHANGED <<remote, disk, frameVars, splitVars, clf, history, evalVars,
                 vizVars>>

\* ---- y_test_pred = clf.predict_classes(X_test)
\* ---- y_test_classed = np.nonzero(y_test)[1]
Predict ==
  /\ Runs("predict")
  /\ y_test_pred' = PredictClasses(clf, data_train, X_test)
  /\ y_test_classed' = NonzeroColumns(y_test)
  /\ Returned(TRUE, "python", {"clf", "X_test", "y_test"},
              {"y_test_pred", "y_test_classed"})
  /\ UNCHANGED <<remote, disk, frameVars, splitVars, modelVars, report, vizVars>>

\* ---- print(classification_report(y_test_pred, y_test_classed,
\* ----                             target_names=img_class_key.values()))
PrintReport ==
  /\ Runs("report")
  /\ report' = ClassificationReport(y_test_pred, y_test_classed,
                                    Values(img_class_key))
  /\ Returned(TRUE, "python", {"y_test_pred", "y_test_classed", "img_class_key"},
              {"report"})
  /\ UNCHANGED <<remote, disk, frameVars, splitVars, modelVars, y_test_pred,
                 y_test_classed, vizVars>>

\* ---- test_im = X_train[154]; imshow
TestIm ==
  /\ Runs("test_im")
  /\ IF Len(X_train.rows) > TestImIndex
     THEN /\ test_im' = Take(X_train, <<TestImIndex + 1>>)
          /\ Returned(TRUE, "python", {"X_train"}, {"test_im"})
     ELSE /\ test_im' = test_im
          /\ Raised("IndexError", {"X_train"}, {})
  /\ UNCHANGED <<remote, disk, frameVars, splitVars, modelVars, evalVars,
                 layer_names, activations, display_grid, figures, loop>>

\* ---- the activation grids of one test image
\* zip(layer_names, activations) stops with the shorter of the two
ZipLen(names, acts) == IF Len(names) < Len(acts) THEN Len(names) ELSE Len(acts)

\* the cell's first lines: the outputs of clf.layers[:8] for the image, and
\* the names of clf.layers[:-1]
LayerOutputs(m) == Activations(Prefix(m.layers, ActivationLayers))

LayerNames(m) ==
  LET ls == AllButLast(m.layers) IN [i \in DOMAIN ls |-> ls[i].name]

Figure(name, grid) == [title |-> name, grid |-> grid]

\* the figures the loop over the zipped pairs draws, from pair k on
RECURSIVE Drawn(_, _, _)
Drawn(names, acts, k) ==
  IF k > ZipLen(names, acts) THEN <<>>
  ELSE (IF StartsWithConv(names[k])
        THEN <<Figure(names[k], DisplayGrid(acts[k]))>>
        ELSE <<>>) \o Drawn(names, acts, k + 1)

\* the last pair whose name starts with 'conv' (0: none)
LastConv(names, acts) ==
  LET ks == {k \in 1 .. ZipLen(names, acts) : StartsWithConv(names[k])}
  IN  IF ks = {} THEN 0 ELSE CHOOSE k \in ks : \A j \in ks : j <= k

ShowActivations ==
  /\ Runs("activations")
  /\ LET acts == LayerOutputs(clf)
         names == LayerNames(clf)
         figs == Drawn(names, acts, 1)
         last == LastConv(names, acts)
     IN  /\ activations' = acts
         /\ layer_names' = names
         /\ figures' = figures \o figs
         /\ display_grid' = IF figs = <<>> THEN display_grid
                            ELSE figs[Len(figs)].grid
         /\ loop' = IF last = 0
                    THEN [at |-> "end", zi |-> ZipLen(names, acts), col |-> 0,
                          row |-> 0]
                    ELSE [at |-> "end", zi |-> ZipLen(names, acts),
                          col |-> NCols(acts[last]) - 1,
                          row |-> ImagesPerRow - 1]
  /\ Returned(TRUE, "python", {"clf", "test_im"}, {"figures"})
  /\ UNCHANGED <<remote, disk, frameVars, splitVars, modelVars, evalVars, test_im>>

\* ---- clf.save('clf.h5')
Save ==
  /\ Runs("save")
  /\ \/ /\ disk' = [disk EXCEPT ![H5Path] = H5File(clf)]
        /\ Returned(TRUE, "python", {"clf"}, {H5Path})
     \/ \* the file cannot be opened for writing
        /\ disk' = disk
        /\ Raised("OSError", {"clf"}, {})
     \/ \* the write fails half way
        /\ disk' = [disk EXCEPT ![H5Path] = Partial]
        /\ Raised("OSError", {"clf"}, {})
  /\ UNCHANGED <<remote, frameVars, splitVars, modelVars, evalVars, vizVars>>

\* ---- the cell whose code is commented out (the t4 package push)
T4Push ==
  /\ Runs("t4_push")
  /\ Returned(TRUE, "python", {}, {})
  /\ UNCHANGED <<remote, disk, frameVars, splitVars, modelVars, evalVars, vizVars>>

\* ---- !tar -czvf clf.tar.gz clf.h5
\* A shell line raises nothing: whatever tar's exit status, the next line runs.
Tar ==
  /\ Runs("tar")
  /\ \/ /\ disk[H5Path] # Absent
        /\ disk' = [disk EXCEPT ![TarPath] = TarArchive(disk, H5Path)]
        /\ Returned(TRUE, "shell", {H5Path}, {TarPath})
     \/ \* tar cannot run or cannot open the archive: nothing is written
        /\ disk' = disk
        /\ Returned(FALSE, "shell", {}, {})
     \/ \* tar fails while writing
        /\ disk' = [disk EXCEPT ![TarPath] = Partial]
        /\ Returned(FALSE, "shell", {H5Path}, {})
  /\ UNCHANGED <<remote, frameVars, splitVars, modelVars, evalVars, vizVars>>

\* ---- !cp clf.tar.gz /opt/ml/model/clf.tar.gz
Cp ==
  /\ Runs("cp")
  /\ \/ /\ disk[TarPath] # Absent
        /\ disk' = [disk EXCEPT ![DeployPath] = disk[TarPath]]
        /\ Returned(TRUE, "shell", {TarPath}, {DeployPath})
     \/ \* no clf.tar.gz, or /opt/ml/model cannot be written
        /\ disk' = disk
        /\ Returned(FALSE, "shell", {}, {})
  /\ UNCHANGED <<remote, frameVars, splitVars, modelVars, evalVars, vizVars>>

Next ==
  \/ Clone \/ Load \/ Unique \/ PlotSamples \/ ClassKey \/ LabelCounts
  \/ Split \/ Build \/ Fit \/ PlotTrain \/ PlotVal \/ Predict \/ PrintReport
  \/ TestIm \/ ShowActivations \/ Save \/ T4Push \/ Tar \/ Cp

Spec == Init /\ [][Next]_vars

\* ========================================================================
\* Properties
\* ========================================================================
Ran(c) == \E i \in DOMAIN log : log[i].cell = c

RanOk(c) == \E i \in DOMAIN log : log[i].cell = c /\ log[i].ok

Before(c, d) ==
  \E i, j \in DOMAIN log : i < j /\ log[i].cell = c /\ log[j].cell = d

\* the steps of the notebook in the order the overview gives them
StageOf(c) ==
  CASE c \in {"clone", "load"} -> 1
    [] c \in {"unique", "plot_samples", "class_key", "label_counts"} -> 2
    [] c = "split" -> 3
    [] c = "build" -> 4
    [] c = "fit" -> 5
    [] c \in {"plot_train", "plot_val", "predict", "report", "test_im",
              "activations"} -> 6
    [] c \in {"save", "t4_push", "tar", "cp"} -> 7

C2_AnyFailureEndsRun ==
  /\ \A i, j \in DOMAIN log : i < j => log[i].cell # log[j].cell
  /\ \A i \in DOMAIN log :
       ~log[i].ok => i = Len(log) /\ outcome = "raised" /\ pc = log[i].cell

\* C2, amended: no cell is attempted twice and nothing catches or recovers
\* from a failure.  An exception raised by a Python step ends the run at
\* that cell and is its outcome.  A shell line (git clone, tar, cp) that
\* fails raises nothing: the kernel goes on with the next line, and the run
\* can finish without an error.
C2_FailureHandling ==
  /\ \A i, j \in DOMAIN log : i < j => log[i].cell # log[j].cell
  /\ \A i \in DOMAIN log :
       (~log[i].ok /\ log[i].lang = "python") =>
         /\ i = Len(log) /\ outcome = "raised" /\ error # "none"
         /\ pc = log[i].cell
  /\ \A i \in DOMAIN log :
       (~log[i].ok /\ log[i].lang = "shell") =>
         IF i < Len(log) THEN log[i + 1].cell = NextCell(log[i].cell)
         ELSE outcome # "raised" /\ pc = NextCell(log[i].cell)
  /\ outcome = "raised" =>
       /\ log # <<>> /\ ~log[Len(log)].ok /\ log[Len(log)].lang = "python"
  /\ outcome # "raised" => error = "none"

\* tar failed, cp ran all the same, and the run ended without an error
C2_Witness ==
  /\ outcome = "finished"
  /\ \E i \in DOMAIN log : log[i].cell = "tar" /\ ~log[i].ok
  /\ Ran("cp")

\* every step from the load on succeeded
AllStepsSucceeded ==
  /\ outcome = "finished"
  /\ \A i \in DOMAIN log : log[i].cell # "clone" => log[i].ok

\* C3: after a run in which every step succeeds, clf.h5 holds the
\* classifier as it is after clf.fit, clf.tar.gz has clf.h5 as its only
\* member, /opt/ml/model/clf.tar.gz is identical to clf.tar.gz, and the
\* model deployed is the one trained in this run, not an earlier one.
C3_Outputs ==
  AllStepsSucceeded =>
    /\ disk[H5Path].kind = "h5"
    /\ disk[H5Path].model = clf
    /\ clf.trained /\ clf.session = "this"
    /\ disk[TarPath].kind = "tar"
    /\ Len(disk[TarPath].members) = 1
    /\ disk[TarPath].members[1].name = H5Path
    /\ disk[TarPath].members[1].data = disk[H5Path]
    /\ disk[DeployPath] = disk[TarPath]
    /\ \A k \in DOMAIN disk[DeployPath].members :
         /\ disk[DeployPath].members[k].data.model.session = "this"
         /\ disk[DeployPath].members[k].data.model.trained

\* a successful run in a directory that held an earlier run's files
C3_Witness ==
  /\ AllStepsSucceeded
  /\ ~log[1].ok

\* how often the cells run so far read, or made, the thing named e
Reads(e) == Cardinality({i \in DOMAIN log : e \in log[i].reads})

Makes(e) == Cardinality({i \in DOMAIN log : e \in log[i].makes})

\* the cells that used the model after clf.fit had trained it
ReadsTrained ==
  Cardinality({i \in DOMAIN log :
     /\ "clf" \in log[i].reads
     /\ \E j \in 1 .. (i - 1) : "trained" \in log[j].makes})

C5_TenClasses ==
  /\ img_class_key # <<>> =>
       /\ Len(img_class_key) = 10
       /\ Range(Keys(img_class_key)) = 0 .. 9
       /\ Cardinality(Range(Values(img_class_key))) = 10
  /\ y # <<>> =>
       /\ \A i \in DOMAIN y : Len(y[i]) = 10
       /\ \A i \in DOMAIN y_train : Len(y_train[i]) = 10
       /\ \A i \in DOMAIN y_test : Len(y_test[i]) = 10
       /\ Range(data_train.label) = Range(Keys(img_class_key))
  /\ clf.layers # <<>> =>
       /\ clf.layers[Len(clf.layers)].kind = "dense"
       /\ clf.layers[Len(clf.layers)].n = 10
       /\ clf.layers[Len(clf.layers)].output = <<10>>
       /\ \A i \in DOMAIN y : Len(y[i]) = OutputWidth(clf)
  /\ y_test_pred # <<>> => \A i \in DOMAIN y_test_pred : y_test_pred[i] \in 0 .. 9

\* y and the network both exist, for a CSV whose labels do not come in
\* ascending order
C5_Witness ==
  /\ pc = "fit" /\ outcome = "running"
  /\ y # <<>> /\ clf.layers # <<>>
  /\ data_train.label[1] # 0

SplitDone == RanOk("split")

TrainRecords == Range(X_train.rows)

TestRecords == Range(X_test.rows)

\* row i of the label matrix t is the one-hot label of record a.rows[i]
PairedWith(a, t) ==
  /\ Len(t) = Len(a.rows)
  /\ \A i \in DOMAIN t : \A c \in 0 .. 9 :
       t[i][c + 1] = (IF remote.label[a.rows[i]] = c THEN 1 ELSE 0)

Partitioned ==
  /\ TrainRecords \cap TestRecords = {}
  /\ TrainRecords \cup TestRecords = 1 .. Len(remote.label)
  /\ Cardinality(TrainRecords) = Len(X_train.rows)
  /\ Cardinality(TestRecords) = Len(X_test.rows)
  /\ PairedWith(X_train, y_train)
  /\ PairedWith(X_test, y_test)

\* C6 as stated: the split is a partition of the rows, the test set holds
\* 20% of the rows, and rows and labels stay paired.
C6_SplitTwentyPercent ==
  SplitDone => /\ Partitioned
               /\ 5 * Len(X_test.rows) = Len(remote.label)

\* C6, amended: every row lands in exactly one of X_train and X_test, rows
\* and labels stay paired, and the test set holds 20% of the rows rounded
\* up to a whole row: the least k with 5k >= n (exactly 20% when the number
\* of rows is a multiple of 5).
C6_SplitPartition ==
  SplitDone =>
    /\ Partitioned
    /\ 5 * Len(X_test.rows) >= Len(remote.label)
    /\ 5 * (Len(X_test.rows) - 1) < Len(remote.label)
    /\ Len(remote.label) % 5 = 0 => 5 * Len(X_test.rows) = Len(remote.label)

\* a split of a row count that is no multiple of 5
C6_Witness ==
  /\ SplitDone
  /\ Len(remote.label) % 5 # 0
  /\ Len(X_test.rows) > 0 /\ Len(X_train.rows) > 0

\* every sample of a is a 28 x 28 x 1 grid holding pixel 28r + c + 1 of its
\* record at (r, c, 0), divided by 255; position (r, c, 0) is read from CSV
\* column 28r + c + 2, whatever the sample
IsPixelGrid(a) ==
  /\ a.shape = <<28, 28, 1>>
  /\ \A r \in 0 .. 27 : \A c \in 0 .. 27 :
       a.col0 + FlatIndex(a.shape, <<r, c, 0>>) = 28 * r + c + 2
  /\ \A s \in DOMAIN a.rows : \A r \in 0 .. 27 : \A c \in 0 .. 27 :
       LET e == At(data_train, a, s, <<r, c, 0>>)
       IN  /\ e.num = CsvPixel(a.rows[s], 28 * r + c + 1)
           /\ e.den = 255
           /\ 0 <= e.num /\ e.num <= e.den

\* C7: when the split cell has returned, every sample of X_train and
\* X_test is a 28 x 28 x 1 grid holding the record's 784 pixel values in
\* row-major order, each divided by 255 and so within [0, 1]; no sample is
\* lost or added; the label column (column 1) is never read as a pixel.
C7_ReshapeNormalise ==
  (pc = "build" /\ outcome = "running") =>
    /\ IsPixelGrid(X_train)
    /\ IsPixelGrid(X_test)
    /\ Len(X_train.rows) + Len(X_test.rows) = Len(remote.label)
    /\ Len(X.rows) = Len(remote.label)
    /\ X.col0 = 2 /\ X.shape = <<784>>

C7_Witness ==
  /\ pc = "build" /\ outcome = "running"
  /\ Len(X_train.rows) > TestImIndex
  /\ At(data_train, X_train, 1, <<27, 27, 0>>) =
       [num |-> CsvPixel(X_train.rows[1], 784), den |-> 255]

\* the conv layers of the network, as positions in clf.layers
ConvLayers == {i \in DOMAIN clf.layers : clf.layers[i].kind = "conv2d"}

Overlap(a, b) ==
  /\ a.r0 < b.r1 /\ b.r0 < a.r1
  /\ a.c0 < b.c1 /\ b.c0 < a.c1

\* figure f is the grid of the conv layer at position i
IsGridOf(f, i) ==
  LET layer == clf.layers[i]
      size == layer.output[1]
      ws == f.grid.writes
  IN  /\ f.title = layer.name
      /\ Len(ws) = layer.n
      /\ {ws[t].channel : t \in DOMAIN ws} = 0 .. (layer.n - 1)
      /\ \A t \in DOMAIN ws :
           /\ ws[t].layer = i
           /\ ws[t].img = <<size, size>>
           /\ \E col \in 0 .. (layer.n \div 16 - 1) : \E row \in 0 .. 15 :
                /\ ws[t].channel = col * 16 + row
                /\ ws[t].r0 = col * size /\ ws[t].r1 = ws[t].r0 + size
                /\ ws[t].c0 = row * size /\ ws[t].c1 = ws[t].c0 + size
           /\ ws[t].r1 <= f.grid.h /\ ws[t].c1 <= f.grid.w
      /\ \A t, u \in DOMAIN ws : t # u => ~Overlap(ws[t], ws[u])
      /\ Len(ws) * size * size = f.grid.h * f.grid.w

\* C8: the activation cell draws one grid for each of the three conv
\* layers, in order, and none for another layer; a grid titled with a
\* layer's name is filled from that layer's activation; each of the layer's
\* 32, 64, 128 channels is written once, channel col*16 + row into the
\* size x size tile at (col, row); the tiles do not overlap and fill the
\* grid.
C8_ActivationGrids ==
  RanOk("activations") =>
    /\ Cardinality(ConvLayers) = 3
    /\ Len(figures) = 3
    /\ \A k \in DOMAIN figures :
         \E i \in ConvLayers :
           /\ Cardinality({j \in ConvLayers : j < i}) = k - 1
           /\ IsGridOf(figures[k], i)
    /\ <<clf.layers[figures[1].grid.writes[1].layer].n,
         clf.layers[figures[2].grid.writes[1].layer].n,
         clf.layers[figures[3].grid.writes[1].layer].n>> = <<32, 64, 128>>
    /\ display_grid = figures[3].grid

C8_Witness ==
  /\ RanOk("activations")
  /\ Len(figures) = 3
  /\ Len(figures[3].grid.writes) = 128

\* the label in the CSV of the record behind each validation row
TrueLabels == [i \in DOMAIN X_test.rows |-> remote.label[X_test.rows[i]]]

\* C9: decoding undoes the one-hot encoding: once y_test_classed is
\* computed it has one entry per row of y_test, entry i being the label the
\* CSV gives the record of validation row i, and it is row for row aligned
\* with y_test_pred (a network that makes no error predicts exactly
\* y_test_classed).
C9_RoundTrip ==
  RanOk("predict") =>
    /\ Len(y_test_classed) = Len(y_test)
    /\ Len(y_test_classed) = Len(y_test_pred)
    /\ Len(y_test_classed) = Len(X_test.rows)
    /\ \A i \in DOMAIN y_test_classed : y_test_classed[i] = TrueLabels[i]
    /\ clf.errEvery = 0 => y_test_pred = y_test_classed

\* decoded labels of a CSV whose labels do not first appear in ascending
\* order
C9_Witness ==
  /\ RanOk("predict")
  /\ Cardinality(Range(y_test_classed)) > 1
  /\ remote.label[1] # 0

NameOf(c) == img_class_key[IndexOf(Keys(img_class_key), c)][2]

\* C10: the report scores the predictions against the true validation
\* labels: for every class c occurring, the row named img_class_key[c]
\* gives as precision the share of the samples predicted c whose true label
\* is c, as recall the share of the samples of true label c predicted c,
\* and as support the number of samples of true label c.
C10_ReportScoresPredictions ==
  RanOk("report") =>
    \A c \in Range(TrueLabels) \cup Range(y_test_pred) :
      \E k \in DOMAIN report :
        LET tp == BothEqual(TrueLabels, y_test_pred, c)
        IN  /\ report[k].name = NameOf(c)
            /\ SameRatio(report[k].precision, Ratio(tp, Count(y_test_pred, c)))
            /\ SameRatio(report[k].recall, Ratio(tp, Count(TrueLabels, c)))
            /\ report[k].support = Count(TrueLabels, c)

\* C11: in the class-balance bar chart every bar is labelled with the name
\* of the class it counts: once the label-count cell has renamed the
\* index, for every label value c the entry named img_class_key[c] holds
\* the number of rows of the dataset whose label is c, whatever order
\* value_counts lists the labels in.
C11_BarsNamedByClass ==
  RanOk("label_counts") =>
    \A c \in Range(Keys(img_class_key)) :
      \E p \in DOMAIN label_counts :
        /\ label_counts[p][1] = NameOf(c)
        /\ label_counts[p][2] = Count(data_train.label, c)

====
